---- MODULE Spec2Model ----
(***************************************************************************)
(* Model of the Tether WDK Indexer HTTP client (src/index.js).             *)
(*                                                                         *)
(* Strings that the code takes apart or builds (URLs, addresses, JSON      *)
(* text) are sequences of units: every "/", "?", "&", "=" is a unit of its *)
(* own, every other unit is a piece of text without those characters.      *)
(* JavaScript values are tagged records ([t |-> "str", v |-> ...]).        *)
(***************************************************************************)
EXTENDS Integers, Sequences, FiniteSets, TLC

VARIABLES
  ctor,        \* the constructor call: its config, globalThis.fetch, result
  probe,       \* a value handed to the structural classifiers, and the answer
  client,      \* the constructed WdkIndexerClient
  pc,          \* per call: "idle", "fetching", "parsing", "done"
  call,        \* per call: the public method invoked and its arguments
  fetchCalls,  \* per call: the invocations of fetchFn, in order
  timer,       \* per call: the timeout armed by setTimeout
  aborted,     \* per call: controller.signal.aborted
  response,    \* per call: the Response whose body is being read
  parsedData,  \* per call: the parsed body, `data` of line 204
  caught,      \* per call: the value caught by the catch clause
  firedAt,     \* per call: where the call stood when its timer fired
  outcome      \* per call: pending, returned value or thrown error

vars == <<ctor, probe, client, pc, call, fetchCalls, timer, aborted, response,
          parsedData, caught, firedAt, outcome>>

----------------------------------------------------------------------------
(* Bounds *)

MaxBatch == 2      \* longest batch request / response array
MaxAddrLen == 2    \* longest address, in code units
MaxTrailingSlashes == 2   \* most "/" at the end of a configured baseUrl
MaxUrlAddrLen == 3   \* longest address when only the request is built

----------------------------------------------------------------------------
(* JavaScript values *)

Undefined == [t |-> "undefined"]
Null == [t |-> "null"]
Str(s) == [t |-> "str", v |-> s]
Num(n) == [t |-> "num", v |-> n]
Bool(b) == [t |-> "bool", v |-> b]
Obj(f) == [t |-> "obj", f |-> f]
Arr(items) == [t |-> "arr", items |-> items]
Circular == [t |-> "circular"]

HasKey(v, k) == v.t = "obj" /\ k \in DOMAIN v.f

\* sequences over S of length at most n
SeqUpTo(S, n) == UNION { [1..k -> S] : k \in 0..n }

\* ToString of the language, as used by String(v), template literals and
\* the Error constructor
RECURSIVE ToStringJS(_)
RECURSIVE JoinJS(_)
JoinJS(items) ==
  IF items = <<>> THEN ""
  ELSE LET h == Head(items)
           hs == IF h.t \in {"null", "undefined"} THEN "" ELSE ToStringJS(h)
       IN IF Len(items) = 1 THEN hs ELSE hs \o "," \o JoinJS(Tail(items))
ToStringJS(v) ==
  CASE v.t = "undefined" -> "undefined"
    [] v.t = "null" -> "null"
    [] v.t = "str" -> v.v
    [] v.t = "num" -> ToString(v.v)
    [] v.t = "bool" -> IF v.v THEN "true" ELSE "false"
    [] v.t = "arr" -> JoinJS(v.items)
    [] OTHER -> "[object Object]"

\* ToBoolean of the language
Truthy(v) ==
  CASE v.t \in {"undefined", "null"} -> FALSE
    [] v.t = "str" -> v.v # ""
    [] v.t = "num" -> v.v # 0
    [] v.t = "bool" -> v.v
    [] OTHER -> TRUE

----------------------------------------------------------------------------
(* Error classes *)

SdkClasses == {"WdkIndexerError", "WdkIndexerApiError",
               "WdkIndexerTimeoutError", "WdkIndexerNetworkError"}

\* new Error(message): the message is converted to a string; an undefined
\* message leaves the inherited empty message
ErrorMessage(message) ==
  IF message = Undefined THEN "" ELSE ToStringJS(message)

\* an Error of the platform (TypeError, SyntaxError, DOMException ...)
JsError(name, message) ==
  [t |-> "error", cls |-> "Error", name |-> name, message |-> message]

WdkIndexerError(message) ==
  [t |-> "error", cls |-> "WdkIndexerError", name |-> "WdkIndexerError",
   message |-> ErrorMessage(message)]

\* property read on a parsed value: apiError.message and the like
Get(v, k) == IF HasKey(v, k) THEN v.f[k] ELSE Undefined

WdkIndexerApiError(apiError) ==
  [t |-> "error", cls |-> "WdkIndexerApiError", name |-> "WdkIndexerApiError",
   message |-> ErrorMessage(Get(apiError, "message")),
   status |-> Get(apiError, "status"),
   errorType |-> Get(apiError, "error")]

WdkIndexerTimeoutError(timeout) ==
  [t |-> "error", cls |-> "WdkIndexerTimeoutError",
   name |-> "WdkIndexerTimeoutError",
   message |-> "Request timed out after " \o ToStringJS(timeout) \o "ms"]

WdkIndexerNetworkError(message, cause) ==
  [t |-> "error", cls |-> "WdkIndexerNetworkError",
   name |-> "WdkIndexerNetworkError",
   message |-> ErrorMessage(message), cause |-> cause]

InstanceOfError(v) == v.t = "error"
InstanceOfWdkIndexerError(v) == v.t = "error" /\ v.cls \in SdkClasses

----------------------------------------------------------------------------
(* Structural classifiers *)

\* a classifier content with any one of the three keys
isApiError_AnyKey(resp) ==
  /\ resp.t \in {"obj", "arr"}
  /\ \/ HasKey(resp, "error")
     \/ HasKey(resp, "message")
     \/ HasKey(resp, "status")

\* a classifier that forgets the status key
isApiError_WithoutStatusKey(resp) ==
  /\ resp.t \in {"obj", "arr"}
  /\ HasKey(resp, "error")
  /\ HasKey(resp, "message")

isApiError(resp) ==
  /\ resp.t \in {"obj", "arr"}
  /\ HasKey(resp, "error")
  /\ HasKey(resp, "message")
  /\ HasKey(resp, "status")

\* `key in item`: a boolean for objects and arrays, a TypeError for null,
\* undefined and primitives
KeyIn(key, item) ==
  IF item.t \in {"obj", "arr"}
  THEN [ok |-> TRUE, value |-> HasKey(item, key)]
  ELSE [ok |-> FALSE,
        error |-> [t |-> "error", cls |-> "Error", name |-> "TypeError",
                   message |-> "Cannot use 'in' operator to search for '"
                                 \o key \o "' in " \o ToStringJS(item)]]

isTokenTransfersResponse(item) == KeyIn("transfers", item)

\* a balance classifier copied from the transfers one, key and all
isTokenBalanceResponse_WrongKey(item) == KeyIn("transfers", item)

isTokenBalanceResponse(item) == KeyIn("tokenBalance", item)

----------------------------------------------------------------------------
(* Strings the code takes apart: [t |-> "ustr", u |-> units] *)

UStr(u) == [t |-> "ustr", u |-> u]

DefaultBaseUrl == UStr(<<"https:", "/", "/", "wdk-api.tether.io">>)

\* a replace with /\/+$/: removes every "/" at the end of the string
RECURSIVE StripTrailingSlash_All(_)
StripTrailingSlash_All(s) ==
  IF s.u # <<>> /\ s.u[Len(s.u)] = "/"
  THEN StripTrailingSlash_All(UStr(SubSeq(s.u, 1, Len(s.u) - 1)))
  ELSE s

\* s.replace(/\/$/, ''): removes one "/" at the end of the string
StripTrailingSlash(s) ==
  IF s.u # <<>> /\ s.u[Len(s.u)] = "/"
  THEN UStr(SubSeq(s.u, 1, Len(s.u) - 1))
  ELSE s

\* v || d
OrElse(v, d) ==
  IF v.t = "ustr" THEN (IF v.u # <<>> THEN v ELSE d)
  ELSE IF Truthy(v) THEN v ELSE d

\* a constructor that never looks for a transport
Construct_SkipsTransportCheck(config, globalFetch) ==
  IF OrElse(config.apiKey, Undefined) = Undefined
  THEN [ok |-> FALSE, error |-> WdkIndexerError(Str("API key is required"))]
  ELSE [ok |-> TRUE,
        client |-> [apiKey |-> config.apiKey,
                    baseUrl |-> StripTrailingSlash(
                                  OrElse(config.baseUrl, DefaultBaseUrl)),
                    timeout |-> OrElse(config.timeout, Num(30000)),
                    fetchFn |-> OrElse(config.fetch, globalFetch)]]

\* a constructor that always stores the default timeout
Construct_IgnoresTimeout(config, globalFetch) ==
  IF OrElse(config.apiKey, Undefined) = Undefined
  THEN [ok |-> FALSE, error |-> WdkIndexerError(Str("API key is required"))]
  ELSE LET fetchFn == OrElse(config.fetch, globalFetch)
       IN IF ~Truthy(fetchFn)
          THEN [ok |-> FALSE,
                error |-> WdkIndexerError(Str("fetch is not available. Please provide a custom fetch implementation or use Node.js 18+."))]
          ELSE [ok |-> TRUE,
                client |-> [apiKey |-> config.apiKey,
                            baseUrl |-> StripTrailingSlash(
                                          OrElse(config.baseUrl, DefaultBaseUrl)),
                            timeout |-> Num(30000), fetchFn |-> fetchFn]]

\* new WdkIndexerClient(config), with globalThis.fetch = globalFetch
Construct(config, globalFetch) ==
  IF OrElse(config.apiKey, Undefined) = Undefined
  THEN [ok |-> FALSE, error |-> WdkIndexerError(Str("API key is required"))]
  ELSE LET baseUrl == StripTrailingSlash(OrElse(config.baseUrl, DefaultBaseUrl))
           timeout == OrElse(config.timeout, Num(30000))
           fetchFn == OrElse(config.fetch, globalFetch)
       IN IF ~Truthy(fetchFn)
          THEN [ok |-> FALSE,
                error |-> WdkIndexerError(Str("fetch is not available. Please provide a custom fetch implementation or use Node.js 18+."))]
          ELSE [ok |-> TRUE,
                client |-> [apiKey |-> config.apiKey, baseUrl |-> baseUrl,
                            timeout |-> timeout, fetchFn |-> fetchFn]]

----------------------------------------------------------------------------
(* URL and payload building *)

\* encodeURIComponent over the code units of an address: "HS" / "LS" are a
\* high / low surrogate; a surrogate without its partner raises URIError
RECURSIVE EncodeUnits(_)
EncodeUnits(u) ==
  IF u = <<>> THEN [ok |-> TRUE, u |-> <<>>]
  ELSE IF u[1] = "LS" THEN [ok |-> FALSE, u |-> <<>>]
  ELSE IF u[1] = "HS"
       THEN IF Len(u) >= 2 /\ u[2] = "LS"
            THEN LET rest == EncodeUnits(SubSeq(u, 3, Len(u)))
                 IN [ok |-> rest.ok, u |-> <<"%F0%9F%98%80">> \o rest.u]
            ELSE [ok |-> FALSE, u |-> <<>>]
  ELSE LET rest == EncodeUnits(Tail(u))
           enc == CASE u[1] = "/" -> "%2F"
                    [] u[1] = "?" -> "%3F"
                    [] u[1] = "#" -> "%23"
                    [] u[1] = "=" -> "%3D"
                    [] u[1] = "&" -> "%26"
                    [] OTHER -> u[1]
       IN [ok |-> rest.ok, u |-> <<enc>> \o rest.u]

\* a method that puts the address into the path as it is
encodeURIComponent_Skipped(s) == [ok |-> TRUE, value |-> s]

encodeURIComponent(s) ==
  LET r == EncodeUnits(s.u)
  IN IF r.ok THEN [ok |-> TRUE, value |-> UStr(r.u)]
     ELSE [ok |-> FALSE, error |-> JsError("URIError", "URI malformed")]

\* the entries of the query object, in insertion order
QueryKeys == <<"limit", "fromTs", "toTs">>

\* a loop without the `value !== undefined` test
RECURSIVE QueryUnits_KeepsUndefined(_, _)
QueryUnits_KeepsUndefined(query, keys) ==
  IF keys = <<>> THEN <<>>
  ELSE LET k == Head(keys)
           rest == QueryUnits_KeepsUndefined(query, Tail(keys))
       IN <<k, "=", ToStringJS(query[k])>>
            \o (IF rest = <<>> THEN <<>> ELSE <<"&">> \o rest)

\* URLSearchParams filled from the entries that are not undefined,
\* then toString()
RECURSIVE QueryUnits(_, _)
QueryUnits(query, keys) ==
  IF keys = <<>> THEN <<>>
  ELSE LET k == Head(keys)
           rest == QueryUnits(query, Tail(keys))
       IN IF query[k] # Undefined
          THEN <<k, "=", ToStringJS(query[k])>>
               \o (IF rest = <<>> THEN <<>> ELSE <<"&">> \o rest)
          ELSE rest

\* lines 172-186: url = baseUrl + path [+ "?" + queryString]
BuildUrl(baseUrl, path, options) ==
  LET base == baseUrl.u \o path
  IN IF "query" \in DOMAIN options
     THEN LET queryString == QueryUnits(options.query, QueryKeys)
          IN IF queryString # <<>> THEN UStr(base \o <<"?">> \o queryString)
             ELSE UStr(base)
     ELSE UStr(base)

\* the keys of a request item, in insertion order
ItemKeys == <<"blockchain", "token", "address", "limit", "fromTs", "toTs">>

\* JSON.stringify of a value without cycles
RECURSIVE StringifyValue(_)
RECURSIVE StringifyItems(_)
RECURSIVE StringifyMembers(_, _, _)
StringifyItems(items) ==
  IF items = <<>> THEN ""
  ELSE LET h == IF Head(items).t = "undefined" THEN "null"
                ELSE StringifyValue(Head(items))
       IN IF Len(items) = 1 THEN h ELSE h \o "," \o StringifyItems(Tail(items))
StringifyMembers(f, keys, first) ==
  IF keys = <<>> THEN ""
  ELSE LET k == Head(keys)
       IN IF k \in DOMAIN f /\ f[k].t # "undefined"
          THEN (IF first THEN "" ELSE ",") \o "\"" \o k \o "\":"
               \o StringifyValue(f[k]) \o StringifyMembers(f, Tail(keys), FALSE)
          ELSE StringifyMembers(f, Tail(keys), first)
StringifyValue(v) ==
  CASE v.t = "null" -> "null"
    [] v.t = "str" -> "\"" \o v.v \o "\""
    [] v.t = "num" -> ToString(v.v)
    [] v.t = "bool" -> (IF v.v THEN "true" ELSE "false")
    [] v.t = "arr" -> "[" \o StringifyItems(v.items) \o "]"
    [] v.t = "obj" -> "{" \o StringifyMembers(v.f, ItemKeys, TRUE) \o "}"

\* a value JSON.stringify raises TypeError on
RECURSIVE HasCycle(_)
HasCycle(v) ==
  CASE v.t = "circular" -> TRUE
    [] v.t = "arr" -> \E i \in 1..Len(v.items) : HasCycle(v.items[i])
    [] OTHER -> FALSE

JSONstringify(v) ==
  IF HasCycle(v)
  THEN [ok |-> FALSE,
        error |-> JsError("TypeError", "Converting circular structure to JSON")]
  ELSE [ok |-> TRUE, value |-> Str(StringifyValue(v))]

\* line 200: options?.body ? JSON.stringify(options.body) : undefined
BuildBody(options) ==
  IF "body" \in DOMAIN options /\ Truthy(options.body)
  THEN JSONstringify(options.body)
  ELSE [ok |-> TRUE, value |-> Undefined]

----------------------------------------------------------------------------
(* The environment: configurations, arguments, transport behaviour *)

Calls == {1, 2}

BLOCKCHAINS == <<"ethereum", "sepolia", "plasma", "arbitrum", "polygon",
                 "tron", "ton", "bitcoin", "spark">>
TOKENS == <<"usdt", "xaut", "btc">>

\* An injected transport. kind says how its promise settles:
\*   "free"     it may resolve or reject at any time, with anything
\*   "honours"  it never settles on its own and rejects with an AbortError
\*              once the signal it was given is aborted
\*   "ignores"  it never settles and pays no attention to the signal
Fn(kind) == [t |-> "fn", kind |-> kind]
StubKinds == {"free", "honours", "ignores"}

Configs ==
  { [apiKey |-> Str("test-key"), baseUrl |-> b, timeout |-> tm, fetch |-> Fn(k)] :
      <<b, tm>> \in { <<Undefined, Undefined>>,
                      <<Undefined, Num(0)>>,
                      <<UStr(<<"https:", "/", "/", "custom.example.com", "/">>),
                        Num(100)>> },
      k \in StubKinds }

AddrUnits == {"0x1234", "/", "HS", "LS"}
Addresses == { UStr(u) : u \in SeqUpTo(AddrUnits, MaxAddrLen) \ {<<>>} }

TransferOptions ==
  { Undefined,
    Obj([limit |-> Num(10)]),
    Obj([limit |-> Num(10), fromTs |-> Num(0), toTs |-> Num(99)]) }

RequestItems ==
  { Obj([blockchain |-> Str("ethereum"), token |-> Str("usdt"),
         address |-> Str("0x1234")]),
    Obj([blockchain |-> Str("nochain"), token |-> Str("usdt"),
         address |-> Str("0x1234"), limit |-> Num(5)]) }
RequestArrays ==
  { Arr(s) : s \in SeqUpTo(RequestItems, MaxBatch) }
    \cup { Undefined, Arr(<<Circular>>) }

TransfersItem == Obj([transfers |-> Arr(<<>>)])
BalanceItem ==
  Obj([tokenBalance |-> Obj([blockchain |-> Str("ethereum"),
                             token |-> Str("usdt"), amount |-> Str("100")])])
ErrorItem ==
  Obj([error |-> Str("Unauthorized"), message |-> Str("Invalid API key"),
       status |-> Num(401)])
ResponseItems == {TransfersItem, BalanceItem, ErrorItem}

\* parsed response bodies
Bodies ==
  { Arr(s) : s \in SeqUpTo(ResponseItems, MaxBatch) }
    \cup ResponseItems
    \cup { Obj([error |-> Str("Oops"), message |-> Null, status |-> Num(503)]),
           Obj([error |-> Str("Oops"), message |-> Str("no status")]),
           Obj([status |-> Str("ok"), timestamp |-> Str("2025-01-01")]),
           Null,
           Str("Bad Gateway") }

StatusLines ==
  { [ok |-> TRUE, status |-> Num(200), statusText |-> Str("OK")],
    [ok |-> FALSE, status |-> Num(401), statusText |-> Str("Unauthorized")],
    [ok |-> FALSE, status |-> Num(500),
     statusText |-> Str("Internal Server Error")] }

\* what the transport can resolve with: a Response whose body is JSON text
\* or is not, or something that is no Response at all
Responses ==
  { [t |-> "response", ok |-> l.ok, status |-> l.status,
     statusText |-> l.statusText, body |-> b] :
      l \in StatusLines,
      b \in {[parse |-> "invalid"]}
              \cup { [parse |-> "json", data |-> d] : d \in Bodies } }
    \cup { Undefined }

AbortError == JsError("AbortError", "This operation was aborted")

\* what the transport can reject with (or throw)
Failures ==
  { JsError("Error", "Connection refused"),
    JsError("TypeError", "fetch failed"),
    AbortError,
    WdkIndexerError(Str("raised by the transport")),
    WdkIndexerTimeoutError(Num(5)),
    Str("boom"),
    Obj([name |-> Str("AbortError")]),
    Undefined }

NoValue == [t |-> "none"]
NoTimer == [state |-> "none", delay |-> Undefined]
Pending == [kind |-> "pending"]
Returned(v) == [kind |-> "return", value |-> v]
Thrown(e) == [kind |-> "throw", error |-> e]

----------------------------------------------------------------------------
(* The request executor, WdkIndexerClient._request *)

\* a catch clause that wraps the message and loses the original failure
catchClause_DropsCause(error, timeout) ==
  IF InstanceOfWdkIndexerError(error) THEN error
  ELSE IF InstanceOfError(error)
       THEN IF error.name = "AbortError"
            THEN WdkIndexerTimeoutError(timeout)
            ELSE WdkIndexerNetworkError(Str(error.message), Undefined)
       ELSE WdkIndexerNetworkError(Str("An unknown error occurred"), Undefined)

\* a catch clause that takes every Error for a timeout
catchClause_EveryErrorIsTimeout(error, timeout) ==
  IF InstanceOfWdkIndexerError(error) THEN error
  ELSE IF InstanceOfError(error)
       THEN WdkIndexerTimeoutError(timeout)
       ELSE WdkIndexerNetworkError(Str("An unknown error occurred"), Undefined)

\* a catch clause without the re-raise of the client's own errors
catchClause_WrapsTypedErrors(error, timeout) ==
  IF InstanceOfError(error)
  THEN IF error.name = "AbortError"
       THEN WdkIndexerTimeoutError(timeout)
       ELSE WdkIndexerNetworkError(Str(error.message), error)
  ELSE WdkIndexerNetworkError(Str("An unknown error occurred"), Undefined)

\* the catch clause, lines 218-228: the error the executor raises for the
\* value it caught
catchClause(error, timeout) ==
  IF InstanceOfWdkIndexerError(error) THEN error
  ELSE IF InstanceOfError(error)
       THEN IF error.name = "AbortError"
            THEN WdkIndexerTimeoutError(timeout)
            ELSE WdkIndexerNetworkError(Str(error.message), error)
       ELSE WdkIndexerNetworkError(Str("An unknown error occurred"), Undefined)

\* a clearTimeout that cancels nothing
clearTimeout_CancelsNothing(tm) == tm

\* clearTimeout(timeoutId): a timer that has not fired will not fire
clearTimeout(tm) ==
  IF tm.state = "armed" THEN [tm EXCEPT !.state = "cleared"] ELSE tm

\* a finally clause that leaves the timer alone
finallyClause_KeepsTimer(tm) == tm

\* the finally clause, line 230
finallyClause(tm) == clearTimeout(tm)

\* a handler that never looks at the body of a failed response
handleData_IgnoresPayload(resp, data) ==
  IF ~resp.ok
  THEN Thrown(WdkIndexerApiError(
         Obj([error |-> Str("UnknownError"),
              message |-> Str("HTTP " \o ToStringJS(resp.status) \o ": "
                                \o ToStringJS(resp.statusText)),
              status |-> resp.status])))
  ELSE Returned(data)

\* a handler that raises the first error item of a successful batch
handleData_RaisesItemErrors(resp, data) ==
  IF ~resp.ok
  THEN IF isApiError(data)
       THEN Thrown(WdkIndexerApiError(data))
       ELSE Thrown(WdkIndexerApiError(
              Obj([error |-> Str("UnknownError"),
                   message |-> Str("HTTP " \o ToStringJS(resp.status) \o ": "
                                     \o ToStringJS(resp.statusText)),
                   status |-> resp.status])))
  ELSE IF data.t = "arr" /\ \E i \in 1..Len(data.items) : isApiError(data.items[i])
       THEN Thrown(WdkIndexerApiError(
              data.items[CHOOSE i \in 1..Len(data.items) : isApiError(data.items[i])]))
       ELSE Returned(data)

\* a handler that returns a batch result without its error items
handleData_DropsErrorItems(resp, data) ==
  IF ~resp.ok
  THEN IF isApiError(data)
       THEN Thrown(WdkIndexerApiError(data))
       ELSE Thrown(WdkIndexerApiError(
              Obj([error |-> Str("UnknownError"),
                   message |-> Str("HTTP " \o ToStringJS(resp.status) \o ": "
                                     \o ToStringJS(resp.statusText)),
                   status |-> resp.status])))
  ELSE IF data.t = "arr"
       THEN Returned(Arr(SelectSeq(data.items, LAMBDA x : ~isApiError(x))))
       ELSE Returned(data)

\* a handler that unwraps the transfers of a successful response
handleData_UnwrapsTransfers(resp, data) ==
  IF ~resp.ok
  THEN IF isApiError(data)
       THEN Thrown(WdkIndexerApiError(data))
       ELSE Thrown(WdkIndexerApiError(
              Obj([error |-> Str("UnknownError"),
                   message |-> Str("HTTP " \o ToStringJS(resp.status) \o ": "
                                     \o ToStringJS(resp.statusText)),
                   status |-> resp.status])))
  ELSE IF HasKey(data, "transfers") THEN Returned(data.f.transfers)
       ELSE Returned(data)

\* lines 206-217: what the executor does with the parsed body
handleData(resp, data) ==
  IF ~resp.ok
  THEN IF isApiError(data)
       THEN Thrown(WdkIndexerApiError(data))
       ELSE Thrown(WdkIndexerApiError(
              Obj([error |-> Str("UnknownError"),
                   message |-> Str("HTTP " \o ToStringJS(resp.status) \o ": "
                                     \o ToStringJS(resp.statusText)),
                   status |-> resp.status])))
  ELSE Returned(data)

\* an error raised inside the try block of call r: catch, then finally
Fail(r, error) ==
  /\ caught' = [caught EXCEPT ![r] = error]
  /\ outcome' = [outcome EXCEPT ![r] = Thrown(catchClause(error, client.timeout))]
  /\ timer' = [timer EXCEPT ![r] = finallyClause(@)]
  /\ pc' = [pc EXCEPT ![r] = "done"]

\* an executor that calls the transport a second time
Request_CallsTwice(r, method, path, options) ==
  LET url == BuildUrl(client.baseUrl, path, options)
      headers == [xApiKey |-> client.apiKey,
                  contentType |-> "application/json"]
      armed == [state |-> "armed", delay |-> client.timeout]
      body == BuildBody(options)
      sent == [url |-> url, method |-> method, headers |-> headers,
               body |-> body.value]
  IN /\ IF body.ok
        THEN /\ fetchCalls' = [fetchCalls EXCEPT ![r] = @ \o <<sent, sent>>]
             /\ timer' = [timer EXCEPT ![r] = armed]
             /\ pc' = [pc EXCEPT ![r] = "fetching"]
             /\ UNCHANGED <<caught, outcome>>
        ELSE /\ caught' = [caught EXCEPT ![r] = body.error]
             /\ outcome' = [outcome EXCEPT ![r] =
                   Thrown(catchClause(body.error, client.timeout))]
             /\ timer' = [timer EXCEPT ![r] = finallyClause(armed)]
             /\ pc' = [pc EXCEPT ![r] = "done"]
             /\ UNCHANGED fetchCalls
     /\ UNCHANGED <<ctor, probe, client, aborted, response, parsedData,
                    firedAt>>

\* lines 171-202: build the request, arm the timer, call the transport
Request(r, method, path, options) ==
  LET url == BuildUrl(client.baseUrl, path, options)
      headers == [xApiKey |-> client.apiKey,
                  contentType |-> "application/json"]
      armed == [state |-> "armed", delay |-> client.timeout]
      body == BuildBody(options)
  IN /\ IF body.ok
        THEN /\ fetchCalls' = [fetchCalls EXCEPT ![r] =
                   Append(@, [url |-> url, method |-> method,
                              headers |-> headers, body |-> body.value])]
             /\ timer' = [timer EXCEPT ![r] = armed]
             /\ pc' = [pc EXCEPT ![r] = "fetching"]
             /\ UNCHANGED <<caught, outcome>>
        ELSE /\ caught' = [caught EXCEPT ![r] = body.error]
             /\ outcome' = [outcome EXCEPT ![r] =
                   Thrown(catchClause(body.error, client.timeout))]
             /\ timer' = [timer EXCEPT ![r] = finallyClause(armed)]
             /\ pc' = [pc EXCEPT ![r] = "done"]
             /\ UNCHANGED fetchCalls
     /\ UNCHANGED <<ctor, probe, client, aborted, response, parsedData, firedAt>>

\* an error raised by a public method before it reaches the executor
Raise(r, error) ==
  /\ outcome' = [outcome EXCEPT ![r] = Thrown(error)]
  /\ pc' = [pc EXCEPT ![r] = "done"]
  /\ UNCHANGED <<ctor, probe, client, fetchCalls, timer, aborted, response, parsedData, caught,
                 firedAt>>

----------------------------------------------------------------------------
(* Public methods *)

ApiPrefix == <<"/", "api", "/", "v1", "/">>

\* `/api/v1/${blockchain}/${token}/${encodedAddress}/${leaf}`
AddressPath(blockchain, token, encoded, leaf) ==
  ApiPrefix \o <<blockchain, "/", token, "/">> \o encoded.u \o <<"/", leaf>>

Health(r) ==
  /\ pc[r] = "idle"
  /\ call' = [call EXCEPT ![r] = [op |-> "health"]]
  /\ Request(r, "GET", ApiPrefix \o <<"health">>, [none |-> TRUE])

GetTokenTransfers(r, blockchain, token, address, options) ==
  /\ pc[r] = "idle"
  /\ call' = [call EXCEPT ![r] =
        [op |-> "getTokenTransfers", blockchain |-> blockchain,
         token |-> token, address |-> address, options |-> options]]
  /\ LET enc == encodeURIComponent(address)
     IN IF enc.ok
        THEN Request(r, "GET",
                     AddressPath(blockchain, token, enc.value, "token-transfers"),
                     [query |-> [limit |-> Get(options, "limit"),
                                 fromTs |-> Get(options, "fromTs"),
                                 toTs |-> Get(options, "toTs")]])
        ELSE Raise(r, enc.error)

GetBatchTokenTransfers(r, requests) ==
  /\ pc[r] = "idle"
  /\ call' = [call EXCEPT ![r] =
        [op |-> "getBatchTokenTransfers", requests |-> requests]]
  /\ Request(r, "POST", ApiPrefix \o <<"batch", "/", "token-transfers">>,
             [body |-> requests])

GetTokenBalance(r, blockchain, token, address) ==
  /\ pc[r] = "idle"
  /\ call' = [call EXCEPT ![r] =
        [op |-> "getTokenBalance", blockchain |-> blockchain,
         token |-> token, address |-> address]]
  /\ LET enc == encodeURIComponent(address)
     IN IF enc.ok
        THEN Request(r, "GET",
                     AddressPath(blockchain, token, enc.value, "token-balances"),
                     [none |-> TRUE])
        ELSE Raise(r, enc.error)

GetBatchTokenBalances(r, requests) ==
  /\ pc[r] = "idle"
  /\ call' = [call EXCEPT ![r] =
        [op |-> "getBatchTokenBalances", requests |-> requests]]
  /\ Request(r, "POST", ApiPrefix \o <<"batch", "/", "token-balances">>,
             [body |-> requests])

----------------------------------------------------------------------------
(* The timer and the transport *)

\* a timer callback that aborts through a controller all calls share
TimerFire_SharedController(r) ==
  /\ timer[r].state = "armed"
  /\ timer' = [timer EXCEPT ![r].state = "fired"]
  /\ aborted' = [s \in Calls |-> TRUE]
  /\ firedAt' = [firedAt EXCEPT ![r] = pc[r]]
  /\ UNCHANGED <<ctor, probe, client, pc, call, fetchCalls, response, parsedData, caught, outcome>>

\* the setTimeout callback, line 194: controller.abort()
TimerFire(r) ==
  /\ timer[r].state = "armed"
  /\ timer' = [timer EXCEPT ![r].state = "fired"]
  /\ aborted' = [aborted EXCEPT ![r] = TRUE]
  /\ firedAt' = [firedAt EXCEPT ![r] = pc[r]]
  /\ UNCHANGED <<ctor, probe, client, pc, call, fetchCalls, response, parsedData, caught, outcome>>

\* `await this.fetchFn(...)` resolves with resp; the executor goes on to
\* call response.json() (line 204)
TransportResolve(r, resp) ==
  /\ pc[r] = "fetching"
  /\ client.fetchFn.kind = "free"
  /\ IF resp.t = "response"
     THEN /\ response' = [response EXCEPT ![r] = resp]
          /\ pc' = [pc EXCEPT ![r] = "parsing"]
          /\ UNCHANGED <<caught, outcome, timer>>
     ELSE /\ Fail(r, JsError("TypeError",
                 "Cannot read properties of undefined (reading 'json')"))
          /\ UNCHANGED response
  /\ UNCHANGED <<ctor, probe, client, call, fetchCalls, aborted, parsedData, firedAt>>

\* `await this.fetchFn(...)` rejects with (or the transport throws) failure
TransportReject(r, failure) ==
  /\ pc[r] = "fetching"
  /\ client.fetchFn.kind = "free"
  /\ Fail(r, failure)
  /\ UNCHANGED <<ctor, probe, client, call, fetchCalls, aborted, response, parsedData, firedAt>>

\* a transport that honours the signal rejects once the signal is aborted
TransportAbortReject(r) ==
  /\ pc[r] = "fetching"
  /\ client.fetchFn.kind = "honours"
  /\ aborted[r]
  /\ Fail(r, AbortError)
  /\ UNCHANGED <<ctor, probe, client, call, fetchCalls, aborted, response, parsedData, firedAt>>

\* `await response.json()` resolves with the parsed body; lines 206-217
JsonResolve(r) ==
  /\ pc[r] = "parsing"
  /\ response[r].body.parse = "json"
  /\ parsedData' = [parsedData EXCEPT ![r] = response[r].body.data]
  /\ LET result == handleData(response[r], response[r].body.data)
     IN IF result.kind = "throw"
        THEN Fail(r, result.error)
        ELSE /\ outcome' = [outcome EXCEPT ![r] = result]
             /\ timer' = [timer EXCEPT ![r] = finallyClause(@)]
             /\ pc' = [pc EXCEPT ![r] = "done"]
             /\ UNCHANGED caught
  /\ UNCHANGED <<ctor, probe, client, call, fetchCalls, aborted, response, firedAt>>

\* `await response.json()` rejects: the body is not JSON text, or the body
\* stream was cut by the abort
JsonReject(r, failure) ==
  /\ pc[r] = "parsing"
  /\ \/ /\ response[r].body.parse = "invalid"
        /\ failure = JsError("SyntaxError", "Unexpected token < in JSON")
     \/ /\ aborted[r]
        /\ failure = AbortError
  /\ Fail(r, failure)
  /\ UNCHANGED <<ctor, probe, client, call, fetchCalls, aborted, response, parsedData, firedAt>>

----------------------------------------------------------------------------
(* Specifications *)

Init ==
  /\ \E cfg \in Configs :
       /\ Construct(cfg, Undefined).ok
       /\ client = Construct(cfg, Undefined).client
       /\ ctor = [config |-> cfg, globalFetch |-> Undefined, state |-> "ok"]
  /\ probe = NoValue
  /\ pc = [r \in Calls |-> "idle"]
  /\ call = [r \in Calls |-> [op |-> "none"]]
  /\ fetchCalls = [r \in Calls |-> <<>>]
  /\ timer = [r \in Calls |-> NoTimer]
  /\ aborted = [r \in Calls |-> FALSE]
  /\ response = [r \in Calls |-> NoValue]
  /\ parsedData = [r \in Calls |-> NoValue]
  /\ caught = [r \in Calls |-> NoValue]
  /\ firedAt = [r \in Calls |-> "never"]
  /\ outcome = [r \in Calls |-> Pending]

Step(r) ==
  \/ Health(r)
  \/ \E a \in Addresses, o \in TransferOptions :
       GetTokenTransfers(r, BLOCKCHAINS[1], TOKENS[1], a, o)
  \/ \E a \in Addresses : GetTokenBalance(r, BLOCKCHAINS[1], TOKENS[1], a)
  \/ \E q \in RequestArrays : GetBatchTokenTransfers(r, q)
  \/ \E q \in RequestArrays : GetBatchTokenBalances(r, q)
  \/ TimerFire(r)
  \/ \E resp \in Responses : TransportResolve(r, resp)
  \/ \E f \in Failures : TransportReject(r, f)
  \/ TransportAbortReject(r)
  \/ JsonResolve(r)
  \/ \E f \in {AbortError, JsError("SyntaxError", "Unexpected token < in JSON")} :
       JsonReject(r, f)

\* one call at a time
Next == Step(1)

Spec == Init /\ [][Next]_vars

\* A timer that stays armed fires, and a transport that honours the signal
\* rejects once it is aborted; nothing obliges a transport to settle.
FairSpec ==
  Spec /\ WF_vars(TimerFire(1)) /\ WF_vars(TransportAbortReject(1))

----------------------------------------------------------------------------
(* Construction *)

\* "/" repeated n times
Slashes(n) == [i \in 1..n |-> "/"]

CtorBaseUrls ==
  { Undefined, UStr(<<>>) }
    \cup { UStr(<<"https:", "/", "/", "x.example">> \o Slashes(n)) :
             n \in 0..MaxTrailingSlashes }

CtorConfigs ==
  [apiKey : {Undefined, Str(""), Str("test-key")},
   baseUrl : CtorBaseUrls,
   timeout : {Undefined, Num(0), Num(100), Num(60000)},
   fetch : {Undefined, Fn("free")}]

\* before `new WdkIndexerClient(config)`
CtorInit ==
  /\ \E cfg \in CtorConfigs, g \in {Undefined, Fn("free")} :
       ctor = [config |-> cfg, globalFetch |-> g, state |-> "new"]
  /\ client = NoValue
  /\ probe = NoValue
  /\ pc = [r \in Calls |-> "idle"]
  /\ call = [r \in Calls |-> [op |-> "none"]]
  /\ fetchCalls = [r \in Calls |-> <<>>]
  /\ timer = [r \in Calls |-> NoTimer]
  /\ aborted = [r \in Calls |-> FALSE]
  /\ response = [r \in Calls |-> NoValue]
  /\ parsedData = [r \in Calls |-> NoValue]
  /\ caught = [r \in Calls |-> NoValue]
  /\ firedAt = [r \in Calls |-> "never"]
  /\ outcome = [r \in Calls |-> Pending]

\* `new WdkIndexerClient(config)`, lines 141-159
NewClient ==
  /\ ctor.state = "new"
  /\ LET res == Construct(ctor.config, ctor.globalFetch)
     IN IF res.ok
        THEN /\ client' = res.client
             /\ ctor' = [ctor EXCEPT !.state = "ok"]
        ELSE /\ client' = client
             /\ ctor' = [config |-> ctor.config,
                         globalFetch |-> ctor.globalFetch,
                         state |-> "threw", error |-> res.error]
  /\ UNCHANGED <<probe, pc, call, fetchCalls, timer, aborted, response,
                 parsedData, caught, firedAt, outcome>>

SpecCtor == CtorInit /\ [][NewClient]_vars

----------------------------------------------------------------------------
(* Building requests: the methods alone, over more arguments *)

UrlAddrUnits == {"0x1234", "5678", "/", "?", "#", "HS", "LS"}
UrlAddresses ==
  { UStr(u) : u \in SeqUpTo(UrlAddrUnits, MaxUrlAddrLen) \ {<<>>} }

\* the options argument: absent, or an object whose entries may be undefined
UrlOptions ==
  { Undefined }
    \cup { Obj(o) : o \in [limit : {Undefined, Num(10), Null},
                           fromTs : {Undefined, Num(0)},
                           toTs : {Undefined, Num(99)}] }

UrlInit ==
  /\ \E cfg \in Configs :
       /\ cfg.fetch = Fn("ignores")
       /\ cfg.timeout # Num(0)
       /\ client = Construct(cfg, Undefined).client
       /\ ctor = [config |-> cfg, globalFetch |-> Undefined, state |-> "ok"]
  /\ probe = NoValue
  /\ pc = [r \in Calls |-> "idle"]
  /\ call = [r \in Calls |-> [op |-> "none"]]
  /\ fetchCalls = [r \in Calls |-> <<>>]
  /\ timer = [r \in Calls |-> NoTimer]
  /\ aborted = [r \in Calls |-> FALSE]
  /\ response = [r \in Calls |-> NoValue]
  /\ parsedData = [r \in Calls |-> NoValue]
  /\ caught = [r \in Calls |-> NoValue]
  /\ firedAt = [r \in Calls |-> "never"]
  /\ outcome = [r \in Calls |-> Pending]

UrlNext ==
  /\ pc[1] = "idle"
  /\ \/ Health(1)
     \/ \E b \in {BLOCKCHAINS[1], BLOCKCHAINS[6]}, a \in UrlAddresses,
           o \in UrlOptions :
          GetTokenTransfers(1, b, TOKENS[1], a, o)
     \/ \E b \in {BLOCKCHAINS[1], BLOCKCHAINS[6]}, a \in UrlAddresses :
          GetTokenBalance(1, b, TOKENS[1], a)
     \/ \E q \in RequestArrays : GetBatchTokenTransfers(1, q)
     \/ \E q \in RequestArrays : GetBatchTokenBalances(1, q)

SpecUrl == UrlInit /\ [][UrlNext]_vars

----------------------------------------------------------------------------
(* Request payloads: the batch methods over more argument values *)

\* what a caller can hand to a batch method: request arrays, other arrays,
\* objects, primitives truthy and falsy, null, nothing at all
BodyValues ==
  RequestArrays
    \cup RequestItems
    \cup { Arr(<<Null>>), Arr(<<Num(0)>>), Arr(<<Undefined>>),
           Arr(<<Arr(<<>>)>>), Obj([limit |-> Num(0)]),
           Num(0), Num(1), Bool(FALSE), Bool(TRUE), Str(""), Str("x"), Null }

BodyInit ==
  /\ \E cfg \in Configs :
       /\ cfg.fetch = Fn("ignores")
       /\ client = Construct(cfg, Undefined).client
       /\ ctor = [config |-> cfg, globalFetch |-> Undefined, state |-> "ok"]
  /\ probe = NoValue
  /\ pc = [r \in Calls |-> "idle"]
  /\ call = [r \in Calls |-> [op |-> "none"]]
  /\ fetchCalls = [r \in Calls |-> <<>>]
  /\ timer = [r \in Calls |-> NoTimer]
  /\ aborted = [r \in Calls |-> FALSE]
  /\ response = [r \in Calls |-> NoValue]
  /\ parsedData = [r \in Calls |-> NoValue]
  /\ caught = [r \in Calls |-> NoValue]
  /\ firedAt = [r \in Calls |-> "never"]
  /\ outcome = [r \in Calls |-> Pending]

BodyNext ==
  /\ pc[1] = "idle"
  /\ \/ Health(1)
     \/ \E o \in TransferOptions :
          GetTokenTransfers(1, BLOCKCHAINS[1], TOKENS[1], UStr(<<"0x1234">>), o)
     \/ GetTokenBalance(1, BLOCKCHAINS[1], TOKENS[1], UStr(<<"0x1234">>))
     \/ \E q \in BodyValues : GetBatchTokenTransfers(1, q)
     \/ \E q \in BodyValues : GetBatchTokenBalances(1, q)

SpecBody == BodyInit /\ [][BodyNext]_vars

----------------------------------------------------------------------------
(* Concurrent calls on one client *)

ConcRequests ==
  { Arr(<<Obj([blockchain |-> Str("ethereum"), token |-> Str("usdt"),
               address |-> Str("0x1234")])>>),
    Arr(<<Circular>>) }

ConcResponses ==
  { [t |-> "response", ok |-> TRUE, status |-> Num(200),
     statusText |-> Str("OK"),
     body |-> [parse |-> "json", data |-> Arr(<<BalanceItem>>)]],
    [t |-> "response", ok |-> FALSE, status |-> Num(401),
     statusText |-> Str("Unauthorized"),
     body |-> [parse |-> "json", data |-> ErrorItem]],
    [t |-> "response", ok |-> TRUE, status |-> Num(200),
     statusText |-> Str("OK"), body |-> [parse |-> "invalid"]] }

ConcFailures == { JsError("Error", "Connection refused"), AbortError }

ConcInit ==
  /\ \E cfg \in Configs :
       /\ cfg.timeout = Num(100)
       /\ client = Construct(cfg, Undefined).client
       /\ ctor = [config |-> cfg, globalFetch |-> Undefined, state |-> "ok"]
  /\ probe = NoValue
  /\ pc = [r \in Calls |-> "idle"]
  /\ call = [r \in Calls |-> [op |-> "none"]]
  /\ fetchCalls = [r \in Calls |-> <<>>]
  /\ timer = [r \in Calls |-> NoTimer]
  /\ aborted = [r \in Calls |-> FALSE]
  /\ response = [r \in Calls |-> NoValue]
  /\ parsedData = [r \in Calls |-> NoValue]
  /\ caught = [r \in Calls |-> NoValue]
  /\ firedAt = [r \in Calls |-> "never"]
  /\ outcome = [r \in Calls |-> Pending]

ConcStep(r) ==
  \/ Health(r)
  \/ \E q \in ConcRequests : GetBatchTokenBalances(r, q)
  \/ TimerFire(r)
  \/ \E resp \in ConcResponses : TransportResolve(r, resp)
  \/ \E f \in ConcFailures : TransportReject(r, f)
  \/ TransportAbortReject(r)
  \/ JsonResolve(r)
  \/ \E f \in {AbortError, JsError("SyntaxError", "Unexpected token < in JSON")} :
       JsonReject(r, f)

\* the caller issues both calls without waiting; their steps interleave
ConcNext == \E r \in Calls : ConcStep(r)

SpecConc == ConcInit /\ [][ConcNext]_vars

----------------------------------------------------------------------------
(* Classifying values *)

ProbeKeys == {"error", "message", "status", "transfers", "tokenBalance",
              "extra"}

\* the values handed to the classifiers: objects with every set of keys,
\* the documented response shapes, arrays, null, undefined, primitives
ProbeValues ==
  { Obj([k \in K |-> Str("x")]) : K \in SUBSET ProbeKeys }
    \cup ResponseItems
    \cup { Arr(<<>>), Arr(<<ErrorItem>>), Null, Undefined, Str("error"),
           Str(""), Num(404), Num(0), Bool(TRUE), Bool(FALSE) }

ProbeInit ==
  /\ \E v \in ProbeValues :
       probe = [value |-> v, by |-> "none", result |-> NoValue]
  /\ ctor = [state |-> "none"]
  /\ client = NoValue
  /\ pc = [r \in Calls |-> "idle"]
  /\ call = [r \in Calls |-> [op |-> "none"]]
  /\ fetchCalls = [r \in Calls |-> <<>>]
  /\ timer = [r \in Calls |-> NoTimer]
  /\ aborted = [r \in Calls |-> FALSE]
  /\ response = [r \in Calls |-> NoValue]
  /\ parsedData = [r \in Calls |-> NoValue]
  /\ caught = [r \in Calls |-> NoValue]
  /\ firedAt = [r \in Calls |-> "never"]
  /\ outcome = [r \in Calls |-> Pending]

ProbeUnchanged ==
  UNCHANGED <<ctor, client, pc, call, fetchCalls, timer, aborted, response,
              parsedData, caught, firedAt, outcome>>

CallIsApiError ==
  /\ probe.by = "none"
  /\ probe' = [probe EXCEPT !.by = "isApiError",
                            !.result = [ok |-> TRUE,
                                        value |-> isApiError(probe.value)]]
  /\ ProbeUnchanged

CallIsTokenTransfersResponse ==
  /\ probe.by = "none"
  /\ probe' = [probe EXCEPT !.by = "isTokenTransfersResponse",
                            !.result = isTokenTransfersResponse(probe.value)]
  /\ ProbeUnchanged

CallIsTokenBalanceResponse ==
  /\ probe.by = "none"
  /\ probe' = [probe EXCEPT !.by = "isTokenBalanceResponse",
                            !.result = isTokenBalanceResponse(probe.value)]
  /\ ProbeUnchanged

ProbeNext ==
  \/ CallIsApiError
  \/ CallIsTokenTransfersResponse
  \/ CallIsTokenBalanceResponse

SpecProbe == ProbeInit /\ [][ProbeNext]_vars

----------------------------------------------------------------------------
(* Vocabulary of the properties *)

Failed(r) == outcome[r].kind = "throw"
FailedWith(r, cls) == Failed(r) /\ outcome[r].error.cls = cls
Settled(r) == outcome[r].kind # "pending"

\* the body of the response was read and parsed
BodyParsed(r) == parsedData[r] # NoValue

\* the ApiErrorPayload shape: an object with the keys error, message, status
ApiErrorPayloadShape(v) ==
  v.t = "obj" /\ {"error", "message", "status"} \subseteq DOMAIN v.f

TimeoutMessage == "Request timed out after " \o ToString(client.timeout.v) \o "ms"

BatchOps == {"getBatchTokenTransfers", "getBatchTokenBalances"}

----------------------------------------------------------------------------
(* Properties *)

\* C1: a call whose transport never settles eventually fails with a
\* TimeoutError carrying the configured timeout, its signal aborted, whether
\* or not the transport reacts to the signal.
C1_HangingTransportTimesOut ==
  \A r \in Calls :
    (pc[r] = "fetching" /\ client.fetchFn.kind \in {"honours", "ignores"})
      ~> (/\ FailedWith(r, "WdkIndexerTimeoutError")
          /\ outcome[r].error.message = TimeoutMessage
          /\ aborted[r])

\* C2: when the timer fires before the transport call settles, the call
\* ends in a TimeoutError, whatever the transport does afterwards.
C2_TimerFirstMeansTimeout ==
  \A r \in Calls :
    (Settled(r) /\ firedAt[r] = "fetching")
      => FailedWith(r, "WdkIndexerTimeoutError")

\* C3: every failure of a client method is one of the SDK's typed errors.
C3_OnlyTypedErrors ==
  \A r \in Calls :
    Failed(r) => outcome[r].error.t = "error"
                   /\ outcome[r].error.cls \in
                        {"WdkIndexerError", "WdkIndexerApiError",
                         "WdkIndexerTimeoutError", "WdkIndexerNetworkError"}

\* C4: a response with a non-success status makes the call fail with an
\* ApiError, whatever its body.
C4_NonSuccessIsApiError ==
  \A r \in Calls :
    (pc[r] = "done" /\ response[r] # NoValue /\ ~response[r].ok)
      => FailedWith(r, "WdkIndexerApiError")

\* C5 as stated: a non-success response whose parsed body has the
\* ApiErrorPayload shape fails with an ApiError whose status, errorType and
\* message equal the body's status, error and message.
C5_PayloadCopiedExactly ==
  \A r \in Calls :
    (pc[r] = "done" /\ BodyParsed(r) /\ ~response[r].ok
       /\ ApiErrorPayloadShape(parsedData[r]))
      => /\ FailedWith(r, "WdkIndexerApiError")
         /\ outcome[r].error.status = parsedData[r].f.status
         /\ outcome[r].error.errorType = parsedData[r].f.error
         /\ Str(outcome[r].error.message) = parsedData[r].f.message

\* C5 amended: status and errorType are the body's status and error; the
\* message is the body's message when that is a string, and its conversion
\* to a string otherwise (null gives "null").
C5_PayloadCopied ==
  \A r \in Calls :
    (pc[r] = "done" /\ BodyParsed(r) /\ ~response[r].ok
       /\ ApiErrorPayloadShape(parsedData[r]))
      => /\ FailedWith(r, "WdkIndexerApiError")
         /\ outcome[r].error.status = parsedData[r].f.status
         /\ outcome[r].error.errorType = parsedData[r].f.error
         /\ parsedData[r].f.message.t = "str"
              => outcome[r].error.message = parsedData[r].f.message.v
         /\ parsedData[r].f.message.t = "null"
              => outcome[r].error.message = "null"

C5_Witness ==
  \E r \in Calls :
    /\ pc[r] = "done" /\ BodyParsed(r) /\ ~response[r].ok
    /\ ApiErrorPayloadShape(parsedData[r])
    /\ response[r].status = Num(500) /\ parsedData[r].f.status = Num(401)
    /\ FailedWith(r, "WdkIndexerApiError")
    /\ outcome[r].error.status = Num(401)

\* C6: a non-success response whose parsed body lacks the ApiErrorPayload
\* shape fails with an ApiError carrying the HTTP status, the error code
\* "UnknownError" and the message "HTTP <status>: <status text>".
C6_SynthesizedApiError ==
  \A r \in Calls :
    (pc[r] = "done" /\ BodyParsed(r) /\ ~response[r].ok
       /\ ~ApiErrorPayloadShape(parsedData[r]))
      => /\ FailedWith(r, "WdkIndexerApiError")
         /\ outcome[r].error.status = response[r].status
         /\ outcome[r].error.errorType = Str("UnknownError")
         /\ response[r].status = Num(401)
              => outcome[r].error.message = "HTTP 401: Unauthorized"
         /\ response[r].status = Num(500)
              => outcome[r].error.message = "HTTP 500: Internal Server Error"

C6_Witness ==
  \E r \in Calls :
    /\ pc[r] = "done" /\ BodyParsed(r) /\ ~response[r].ok
    /\ parsedData[r] = Obj([error |-> Str("Oops"), message |-> Str("no status")])
    /\ outcome[r].error.message = "HTTP 500: Internal Server Error"

\* a failure value of the transport that is an abort / a typed error
IsAbortFailure(f) == f.t = "error" /\ f.name = "AbortError"
IsTypedFailure(f) ==
  f.t = "error" /\ f.cls \in {"WdkIndexerError", "WdkIndexerApiError",
                              "WdkIndexerTimeoutError", "WdkIndexerNetworkError"}
TransportFailed(r) ==
  pc[r] = "done" /\ fetchCalls[r] # <<>> /\ response[r] = NoValue
    /\ caught[r] \in Failures

\* C7 as stated: a transport failure that is neither an abort nor a typed
\* error gives a NetworkError with the failure's message, caused by it.
C7_NetworkErrorWrapsFailure ==
  \A r \in Calls :
    (TransportFailed(r) /\ ~IsAbortFailure(caught[r])
       /\ ~IsTypedFailure(caught[r]))
      => /\ FailedWith(r, "WdkIndexerNetworkError")
         /\ outcome[r].error.cause = caught[r]
         /\ caught[r].t = "error"
              => outcome[r].error.message = caught[r].message

\* C7 amended: for a failure that is an Error instance the NetworkError has
\* its message and it as cause; for any other failure value the NetworkError
\* has the message "An unknown error occurred" and no cause.
C7_NetworkErrorWrapsError ==
  \A r \in Calls :
    (TransportFailed(r) /\ ~IsAbortFailure(caught[r])
       /\ ~IsTypedFailure(caught[r]))
      => /\ FailedWith(r, "WdkIndexerNetworkError")
         /\ caught[r].t = "error"
              => /\ outcome[r].error.message = caught[r].message
                 /\ outcome[r].error.cause = caught[r]
         /\ caught[r].t # "error"
              => /\ outcome[r].error.message = "An unknown error occurred"
                 /\ outcome[r].error.cause = Undefined

C7_Witness ==
  \E r \in Calls :
    /\ TransportFailed(r)
    /\ caught[r] = JsError("Error", "Connection refused")
    /\ FailedWith(r, "WdkIndexerNetworkError")
    /\ outcome[r].error.message = "Connection refused"

\* C8 as stated: no call fails with a TimeoutError unless its timer fired.
C8_TimeoutOnlyAfterTimer ==
  \A r \in Calls :
    FailedWith(r, "WdkIndexerTimeoutError") => firedAt[r] # "never"

\* C8 amended: a call fails with a TimeoutError only if the executor caught
\* an Error named AbortError (then the error carries the client's timeout)
\* or caught a TimeoutError raised by the transport; the timer need not
\* have fired.
C8_TimeoutOnlyFromAbortError ==
  \A r \in Calls :
    FailedWith(r, "WdkIndexerTimeoutError")
      => \/ /\ caught[r].t = "error" /\ caught[r].cls = "Error"
            /\ caught[r].name = "AbortError"
            /\ outcome[r].error.message = TimeoutMessage
         \/ /\ caught[r].t = "error"
            /\ caught[r].cls = "WdkIndexerTimeoutError"
            /\ outcome[r].error = caught[r]

C8_Witness ==
  \E r \in Calls :
    /\ FailedWith(r, "WdkIndexerTimeoutError")
    /\ firedAt[r] = "fetching"
    /\ caught[r] = AbortError
    /\ client.fetchFn.kind = "honours"

\* C9: once a call has settled no timer of it is pending.
C9_TimerClearedOnSettle ==
  \A r \in Calls : Settled(r) => timer[r].state # "armed"

C9_Witness ==
  \E r \in Calls :
    /\ outcome[r].kind = "return" /\ timer[r].state = "cleared"
    /\ timer[r].delay = client.timeout

\* C10: a batch call whose response has a success status and a parsed body
\* returns that body, every item in its position, error items included; a
\* batch call fails only when the HTTP call failed (no body was parsed or
\* the status was not a success).
C10_BatchItemErrorsAreData ==
  \A r \in Calls :
    (call[r].op \in BatchOps /\ pc[r] = "done")
      => /\ (BodyParsed(r) /\ response[r].ok)
              => /\ outcome[r].kind = "return"
                 /\ outcome[r].value.t = response[r].body.data.t
                 /\ outcome[r].value.t = "arr"
                      => /\ Len(outcome[r].value.items)
                              = Len(response[r].body.data.items)
                         /\ \A i \in 1..Len(outcome[r].value.items) :
                              outcome[r].value.items[i]
                                = response[r].body.data.items[i]
         /\ Failed(r) => (~BodyParsed(r) \/ ~response[r].ok)

C10_Witness ==
  \E r \in Calls :
    /\ call[r].op = "getBatchTokenTransfers" /\ pc[r] = "done"
    /\ outcome[r] = Returned(Arr(<<TransfersItem, ErrorItem>>))

\* C13: construction fails, with the SDK's configuration error, exactly
\* when the apiKey is absent or empty or there is no transport at all
\* (none injected, no platform fetch); any other config constructs.
C13_ConstructionFailsIff ==
  ctor.state # "new"
    => /\ ctor.state = "threw"
            <=> \/ ctor.config.apiKey \in {Undefined, Str("")}
                \/ (ctor.config.fetch = Undefined
                      /\ ctor.globalFetch = Undefined)
       /\ ctor.state = "threw"
            => ctor.error.t = "error" /\ ctor.error.cls = "WdkIndexerError"
       /\ ctor.state = "ok" => client # NoValue

C13_Witness ==
  /\ ctor.state = "threw"
  /\ ctor.config.apiKey = Str("")
  /\ ctor.config.fetch # Undefined
  /\ ctor.config.baseUrl # Undefined
  /\ ctor.error.message = "API key is required"

ProductionUrl == UStr(<<"https:", "/", "/", "wdk-api.tether.io">>)
EndsInSlash(s) == Len(s.u) > 0 /\ s.u[Len(s.u)] = "/"
WithoutLast(s) == UStr([i \in 1..(Len(s.u) - 1) |-> s.u[i]])

\* C14 as stated: the stored baseUrl is the supplied one less one trailing
\* slash, the supplied one unchanged when it has none, and the production
\* URL when none is supplied.
C14_BaseUrlStored ==
  ctor.state = "ok"
    => LET b == ctor.config.baseUrl
       IN client.baseUrl = IF b = Undefined THEN ProductionUrl
                           ELSE IF EndsInSlash(b) THEN WithoutLast(b)
                           ELSE b

\* C14 amended: as C14, but an empty baseUrl counts as none supplied and
\* gives the production URL.
C14_BaseUrlStoredOrDefault ==
  ctor.state = "ok"
    => LET b == ctor.config.baseUrl
       IN /\ client.baseUrl = IF b = Undefined \/ b = UStr(<<>>)
                              THEN ProductionUrl
                              ELSE IF EndsInSlash(b) THEN WithoutLast(b)
                              ELSE b
          /\ (b # Undefined /\ EndsInSlash(b) /\ EndsInSlash(WithoutLast(b)))
               => EndsInSlash(client.baseUrl)

C14_Witness ==
  /\ ctor.state = "ok"
  /\ ctor.config.baseUrl = UStr(<<"https:", "/", "/", "x.example", "/", "/">>)
  /\ client.baseUrl = UStr(<<"https:", "/", "/", "x.example", "/">>)

\* C15 as stated: the stored timeout is 30000 when none is supplied and
\* the supplied value otherwise, 0 included; every timer is armed with it.
C15_TimeoutStored ==
  /\ client.timeout = IF ctor.config.timeout = Undefined THEN Num(30000)
                      ELSE ctor.config.timeout
  /\ \A r \in Calls : timer[r].state # "none" => timer[r].delay = client.timeout

\* C15 amended: the stored timeout is 30000 when none or 0 is supplied and
\* the supplied value otherwise; every timer is armed with the stored value.
C15_TimeoutStoredOrDefault ==
  /\ client.timeout = IF ctor.config.timeout \in {Undefined, Num(0)}
                      THEN Num(30000)
                      ELSE ctor.config.timeout
  /\ \A r \in Calls : timer[r].state # "none" => timer[r].delay = client.timeout

C15_Witness ==
  \E r \in Calls :
    /\ ctor.config.timeout = Num(100)
    /\ timer[r].state = "armed" /\ timer[r].delay = Num(100)

\* the URL the transport of call r was given, and its parts
SentUrl(r) == fetchCalls[r][1].url.u
HasMark(u) == \E i \in 1..Len(u) : u[i] = "?"
MarkAt(u) == CHOOSE i \in 1..Len(u) : u[i] = "?" /\ \A j \in 1..(i - 1) : u[j] # "?"
PathOf(u) == IF HasMark(u) THEN SubSeq(u, 1, MarkAt(u) - 1) ELSE u
QueryOf(u) == IF HasMark(u) THEN SubSeq(u, MarkAt(u) + 1, Len(u)) ELSE <<>>
Contains(u, x) == \E i \in 1..Len(u) : u[i] = x

\* how a query value reads in a URL
QueryText(v) ==
  CASE v = Num(0) -> "0"
    [] v = Num(10) -> "10"
    [] v = Num(99) -> "99"
    [] v = Null -> "null"

\* key=value for an entry that is not undefined, nothing otherwise
Pair(options, k) ==
  IF Get(options, k) = Undefined THEN <<>>
  ELSE <<k, "=", QueryText(Get(options, k))>>

Amp(a, b) == IF a = <<>> THEN b ELSE IF b = <<>> THEN a ELSE a \o <<"&">> \o b

ExpectedQuery(options) ==
  Amp(Pair(options, "limit"),
      Amp(Pair(options, "fromTs"), Pair(options, "toTs")))

\* C16: the URL is baseUrl + path, followed by "?" and the entries that are
\* not undefined, stringified, in entry order; with no such entry, and for
\* the methods without a query, there is no "?". With only limit set the
\* URL has limit= and neither fromTs= nor toTs=.
C16_QueryOmitsUndefined ==
  \A r \in Calls :
    fetchCalls[r] # <<>>
      => LET u == SentUrl(r)
             b == client.baseUrl.u
             expected == IF call[r].op = "getTokenTransfers"
                         THEN ExpectedQuery(call[r].options) ELSE <<>>
         IN /\ SubSeq(u, 1, Len(b) + 5) = b \o <<"/", "api", "/", "v1", "/">>
            /\ QueryOf(u) = expected
            /\ HasMark(u) <=> expected # <<>>
            /\ call[r].op = "health"
                 => u = b \o <<"/", "api", "/", "v1", "/", "health">>
            /\ (call[r].op = "getTokenTransfers"
                  /\ Get(call[r].options, "limit") = Num(10)
                  /\ Get(call[r].options, "fromTs") = Undefined
                  /\ Get(call[r].options, "toTs") = Undefined)
                 => /\ QueryOf(u) = <<"limit", "=", "10">>
                    /\ ~Contains(u, "fromTs") /\ ~Contains(u, "toTs")

C16_Witness ==
  \E r \in Calls :
    /\ call[r].op = "getTokenTransfers"
    /\ fetchCalls[r] # <<>>
    /\ Get(call[r].options, "limit") = Null
    /\ Get(call[r].options, "fromTs") = Undefined
    /\ Get(call[r].options, "toTs") = Num(99)
    /\ QueryOf(SentUrl(r)) = <<"limit", "=", "null", "&", "toTs", "=", "99">>

\* C17: whenever getTokenTransfers or getTokenBalance builds a URL, its path
\* is /api/v1/{blockchain}/{token}/{address}/{leaf} with the address in one
\* segment: no "/", "?" or "#" of the address survives unencoded; the
\* address 0x1234/5678 appears as 0x1234%2F5678.
C17_AddressIsOneSegment ==
  \A r \in Calls :
    (call[r].op \in {"getTokenTransfers", "getTokenBalance"}
       /\ fetchCalls[r] # <<>>)
      => LET u == PathOf(SentUrl(r))
             b == Len(client.baseUrl.u)
             leaf == IF call[r].op = "getTokenTransfers"
                     THEN "token-transfers" ELSE "token-balances"
         IN /\ Len(u) >= b + 12
            /\ SubSeq(u, 1, b) = client.baseUrl.u
            /\ SubSeq(u, b + 1, b + 9)
                 = <<"/", "api", "/", "v1", "/", call[r].blockchain, "/",
                     call[r].token, "/">>
            /\ SubSeq(u, Len(u) - 1, Len(u)) = <<"/", leaf>>
            /\ \A i \in (b + 10)..(Len(u) - 2) : u[i] \notin {"/", "?", "#"}
            /\ ~Contains(SentUrl(r), "#")
            /\ call[r].address = UStr(<<"0x1234", "/", "5678">>)
                 => SubSeq(u, b + 10, Len(u) - 2) = <<"0x1234", "%2F", "5678">>

C17_Witness ==
  \E r \in Calls :
    /\ call[r].op = "getTokenBalance"
    /\ call[r].address = UStr(<<"?", "/", "#">>)
    /\ fetchCalls[r] # <<>>
    /\ Contains(SentUrl(r), "%2F") /\ Contains(SentUrl(r), "%3F")
    /\ Contains(SentUrl(r), "%23")

ReturnedBatch(r) ==
  call[r].op \in BatchOps /\ outcome[r].kind = "return"
    /\ call[r].requests.t = "arr"

\* C11 as stated: the array a batch call returns has the length of the
\* request array.
C11_BatchResultMatchesRequest ==
  \A r \in Calls :
    ReturnedBatch(r)
      => /\ outcome[r].value.t = "arr"
         /\ Len(outcome[r].value.items) = Len(call[r].requests.items)

\* C11 amended: the value a batch call returns is the response body as the
\* server sent it, item for item; it has the length of the request array
\* when the response array has.
C11_BatchResultIsResponseArray ==
  \A r \in Calls :
    ReturnedBatch(r)
      => /\ outcome[r].value = parsedData[r]
         /\ (parsedData[r].t = "arr"
               /\ Len(parsedData[r].items) = Len(call[r].requests.items))
              => /\ Len(outcome[r].value.items) = Len(call[r].requests.items)
                 /\ \A i \in 1..Len(call[r].requests.items) :
                      outcome[r].value.items[i]
                        = response[r].body.data.items[i]

C11_Witness ==
  \E r \in Calls :
    /\ call[r].op = "getBatchTokenBalances"
    /\ call[r].requests.t = "arr" /\ Len(call[r].requests.items) = 2
    /\ call[r].requests.items[2].f.blockchain = Str("nochain")
    /\ outcome[r] = Returned(Arr(<<BalanceItem, ErrorItem>>))

\* C12: with a success status and a parsed body, every method returns the
\* parsed body as it is.
C12_SuccessBodyVerbatim ==
  \A r \in Calls :
    (pc[r] = "done" /\ BodyParsed(r) /\ response[r].ok)
      => outcome[r] = [kind |-> "return", value |-> response[r].body.data]

C12_Witness ==
  \E r \in Calls :
    /\ call[r].op = "getTokenTransfers" /\ pc[r] = "done"
    /\ BodyParsed(r) /\ response[r].ok
    /\ outcome[r].kind = "return"
    /\ outcome[r].value = Obj([transfers |-> Arr(<<>>)])

\* C20 as stated: every call that ends in a value or in one of the typed
\* errors has invoked the transport exactly once.
C20_ExactlyOneTransportCall ==
  \A r \in Calls :
    (outcome[r].kind = "return"
       \/ (Failed(r) /\ outcome[r].error.cls
             \in {"WdkIndexerApiError", "WdkIndexerTimeoutError",
                  "WdkIndexerNetworkError"}))
      => Len(fetchCalls[r]) = 1

\* C20 amended: no call invokes the transport more than once; a call in
\* flight, a returned value, an ApiError and a TimeoutError come with
\* exactly one invocation; a call settles without any only when the request
\* could not be built: the address could not be encoded (URIError) or the
\* body could not be serialized (NetworkError wrapping the TypeError).
C20_AtMostOneTransportCall ==
  \A r \in Calls :
    /\ Len(fetchCalls[r]) <= 1
    /\ pc[r] \in {"fetching", "parsing"} => Len(fetchCalls[r]) = 1
    /\ (outcome[r].kind = "return"
          \/ FailedWith(r, "WdkIndexerApiError")
          \/ FailedWith(r, "WdkIndexerTimeoutError"))
         => Len(fetchCalls[r]) = 1
    /\ (Settled(r) /\ Len(fetchCalls[r]) = 0)
         => \/ /\ call[r].op \in {"getTokenTransfers", "getTokenBalance"}
               /\ outcome[r].error.name = "URIError"
            \/ /\ call[r].op \in BatchOps
               /\ FailedWith(r, "WdkIndexerNetworkError")
               /\ outcome[r].error.cause.name = "TypeError"

C20_Witness ==
  \E r \in Calls :
    /\ FailedWith(r, "WdkIndexerNetworkError")
    /\ caught[r] = JsError("Error", "Connection refused")
    /\ Len(fetchCalls[r]) = 1

\* C18: isApiError answers true exactly for a non-null object that has the
\* three keys error, message and status; false for null, undefined,
\* primitives, arrays and objects missing a key.
C18_IsApiErrorIff ==
  probe.by = "isApiError"
    => /\ probe.result.ok
       /\ probe.result.value
            <=> /\ probe.value.t = "obj"
                /\ \A k \in {"error", "message", "status"} :
                     k \in DOMAIN probe.value.f
       /\ probe.value.t \in {"null", "undefined", "str", "num", "bool"}
            => probe.result.value = FALSE

C18_Witness ==
  /\ probe.by = "isApiError"
  /\ probe.value = Obj([error |-> Str("x"), message |-> Str("x"),
                        transfers |-> Str("x")])
  /\ probe.result = [ok |-> TRUE, value |-> FALSE]

\* C19: each of the three documented shapes {transfers}, {tokenBalance},
\* {error, message, status} makes its own classifier answer true and the
\* other two answer false.
C19_ClassifiersPartitionShapes ==
  (probe.by # "none" /\ probe.value \in {TransfersItem, BalanceItem, ErrorItem})
    => /\ probe.result.ok
       /\ probe.result.value
            <=> \/ probe.by = "isTokenTransfersResponse"
                     /\ probe.value = TransfersItem
                \/ probe.by = "isTokenBalanceResponse"
                     /\ probe.value = BalanceItem
                \/ probe.by = "isApiError" /\ probe.value = ErrorItem

C19_Witness ==
  /\ probe.by = "isTokenBalanceResponse"
  /\ probe.value = BalanceItem
  /\ probe.result = [ok |-> TRUE, value |-> TRUE]

\* C22: when the value the executor caught is one of the client's typed
\* errors, thrown by the transport or raised by the executor itself, the
\* call fails with that very error: no NetworkError around it, no
\* TimeoutError in its place.
C22_TypedErrorReraised ==
  \A r \in Calls :
    (pc[r] = "done" /\ caught[r] # NoValue /\ IsTypedFailure(caught[r]))
      => outcome[r] = Thrown(caught[r])

\* the transport itself threw a TimeoutError that is not the client's own
C22_Witness ==
  \E r \in Calls :
    /\ TransportFailed(r)
    /\ caught[r] = WdkIndexerTimeoutError(Num(5))
    /\ client.timeout # Num(5)
    /\ outcome[r] = Thrown(WdkIndexerTimeoutError(Num(5)))

\* the JSON text of the values 0, false, '', null and of the empty array
JsonTextOf(v) ==
  CASE v = Num(0) -> "0"
    [] v = Bool(FALSE) -> "false"
    [] v = Str("") -> "\"\""
    [] v = Null -> "null"
    [] v = Arr(<<>>) -> "[]"
    [] OTHER -> StringifyValue(v)

\* C23: a call that reaches the transport with a body supplied hands the
\* transport the JSON text of that body, for every serializable body, the
\* empty array and the values 0, false, '' and null included; a call with
\* no body supplied hands the transport no body.
C23_BodyIsJsonOfSupplied ==
  \A r \in Calls :
    fetchCalls[r] # <<>>
      => LET sent == fetchCalls[r][1].body
         IN IF call[r].op \in BatchOps /\ call[r].requests # Undefined
            THEN sent = Str(JsonTextOf(call[r].requests))
            ELSE sent = Undefined

\* C25: isTokenTransfersResponse and isTokenBalanceResponse answer every
\* JSON value (object, array, null, string, number, boolean) with a
\* boolean and never raise; the answer is true exactly when the value has
\* the key transfers, respectively tokenBalance.
C25_KeyClassifiersTotal ==
  (probe.by \in {"isTokenTransfersResponse", "isTokenBalanceResponse"}
     /\ probe.value.t \in {"obj", "arr", "null", "str", "num", "bool"})
    => /\ probe.result.ok
       /\ probe.result.value
            <=> /\ probe.value.t = "obj"
                /\ (IF probe.by = "isTokenTransfersResponse"
                    THEN "transfers" ELSE "tokenBalance")
                      \in DOMAIN probe.value.f

\* C24: the signal of a call is aborted at most once, by the firing of that
\* call's timer and by nothing else, and not after the call has settled;
\* a call that settled without its timer firing has an unaborted signal.
C24_AbortOnlyByTimerBeforeSettle ==
  /\ [][\A r \in Calls :
          /\ aborted[r] => aborted'[r]
          /\ (~aborted[r] /\ aborted'[r])
               => /\ timer[r].state = "armed" /\ timer'[r].state = "fired"
                  /\ ~Settled(r)
          /\ timer[r].state \in {"fired", "cleared"}
               => timer'[r].state = timer[r].state]_vars
  /\ [](\A r \in Calls :
          (Settled(r) /\ firedAt[r] = "never") => ~aborted[r])

\* transport and parsing finished first: the value is returned, the timer is
\* cancelled, the signal untouched
C24_Witness ==
  \E r \in Calls :
    /\ outcome[r].kind = "return" /\ BodyParsed(r)
    /\ timer[r].state = "cleared" /\ firedAt[r] = "never"
    /\ ~aborted[r]

\* everything that belongs to call r
Own(r) ==
  <<pc[r], call[r], fetchCalls[r], timer[r], aborted[r], response[r],
    parsedData[r], caught[r], firedAt[r], outcome[r]>>

\* C21: calls issued concurrently on one client do not touch each other.
\* Under every interleaving a step of one call (its start, the firing of
\* its timer, its failure, its completion) leaves the timer, the signal, the
\* progress and the outcome of every other call as they were, and leaves
\* the client's apiKey, baseUrl and timeout as they were; a signal is
\* aborted only by its own call's timer and a call returns the body of its
\* own response.
C21_ConcurrentCallsIndependent ==
  /\ [][/\ client' = client
        /\ \A r \in Calls, s \in Calls :
             (r # s /\ Own(r)' # Own(r)) => Own(s)' = Own(s)]_vars
  /\ [](\A r \in Calls :
          /\ aborted[r] => timer[r].state = "fired"
          /\ outcome[r].kind = "return" => outcome[r].value = parsedData[r])

\* one call has timed out, its signal aborted; the other, on the same
\* client, has returned its value with its signal untouched
C21_Witness ==
  /\ FailedWith(1, "WdkIndexerTimeoutError") /\ aborted[1]
  /\ firedAt[1] = "fetching"
  /\ outcome[2] = Returned(Arr(<<BalanceItem>>))
  /\ ~aborted[2] /\ timer[2].state = "cleared"

====
